---- MODULE Spec2Model ----
(***************************************************************************)
(* Model of the inventory-slip generator: the paginator / context builder  *)
(* (run_full_process_inventory_slips, chunk_records) and the format        *)
(* detector / normalizer (parse_inventory_json, parse_bamboo_data,         *)
(* parse_cultivera_data, parse_growflow_data, process_csv_data).           *)
(*                                                                         *)
(* Conventions.                                                            *)
(*  - A Python string is a sequence of tokens; "" is <<>>.  The tokens are *)
(*    chosen so that every substring test, split and concatenation of the  *)
(*    code acts on whole tokens (" - ", "T", "_", "*", "%" are tokens).    *)
(*  - A Python int n is IntVal(n) = <<"int", n>>; no string uses the token *)
(*    "int".                                                               *)
(*  - A dict is a function whose domain is its key set; the slot key       *)
(*    f"Label{k}" is the integer k.                                        *)
(***************************************************************************)
EXTENDS Integers, Sequences, FiniteSets, TLC

VARIABLES
    builder,         \* which copy of the code runs: "web" or "desktop"
    records,         \* selected_df.to_dict(orient="records")
    items_per_page,  \* int(config['SETTINGS']['items_per_page'])
    pc,              \* position inside run_full_process_inventory_slips
    i,               \* the index of range(0, len(records), chunk_size)
    current_chunk,
    total_chunks,
    pages,           \* the page contexts rendered so far, in order
    composed,        \* the pages held by the composer: master, then appended
    progress,        \* the values passed to progress_callback, in order
    ret,             \* the value returned by run_full_process_inventory_slips
    json_data,       \* the decoded JSON value handed to the normalizer
    parsed,          \* the outcome of the last normalizer call on json_data
    df,              \* the CSV-derived table handed to process_csv_data
    csv_out,         \* the outcome of process_csv_data on df
    today,           \* datetime.datetime.today().strftime("%Y-%m-%d")
    earlier,         \* what the caller got from the normalizer call before
                     \* the latest one, with the dates of the two calls
    session,         \* the Flask session of the browser, key by key
    response,        \* what the last request handler of app.py returned
    recent_urls      \* config['PATHS']['recent_urls'] as saved on disk

pagVars == <<builder, records, items_per_page, pc, i, current_chunk,
             total_chunks, pages, composed, progress, ret>>
jsonVars == <<json_data, parsed>>
csvVars == <<df, csv_out>>
clockVars == <<today, earlier>>
webVars == <<session, response, recent_urls>>
vars == <<builder, records, items_per_page, pc, i, current_chunk,
          total_chunks, pages, composed, progress, ret,
          json_data, parsed, df, csv_out, today, earlier,
          session, response, recent_urls>>

(***************************************************************************)
(* Bounds of the model.                                                    *)
(***************************************************************************)
MaxLen == 3       \* longest selection of records
MaxN == 3         \* largest items-per-page
MaxItems == 2     \* longest item list of a JSON payload
MaxCols == 3      \* most columns of a CSV table
MaxRows == 2      \* most rows of a CSV table
MaxPipedAt == 2   \* longest saved list to which the piped URL is loaded

(***************************************************************************)
(* Python values.                                                          *)
(***************************************************************************)
E == <<>>
S(t) == <<t>>
IntVal(n) == <<"int", n>>
Truthy(s) == s # E
Or(a, b) == IF Truthy(a) THEN a ELSE b
Min(a, b) == IF a <= b THEN a ELSE b

\* dict.get(key, default)
Get(d, key, default) == IF key \in DOMAIN d THEN d[key] ELSE default

\* d[key] = value
Put(d, key, value) ==
    [x \in DOMAIN d \cup {key} |-> IF x = key THEN value ELSE d[x]]

\* needle in s (substring test), on tokens
Contains(s, needle) ==
    \E k \in 0..(Len(s) - Len(needle)) :
        \A j \in 1..Len(needle) : s[k + j] = needle[j]

\* Positions of the separator token sep in s, in increasing order
SepPositions(s, sep) == {k \in 1..Len(s) : s[k] = sep}

\* s.split(sep)[n] for a one-token separator, n counted from 0
RECURSIVE SplitAt(_, _, _)
SplitAt(s, sep, n) ==
    LET first == IF SepPositions(s, sep) = {} THEN Len(s) + 1
                 ELSE CHOOSE k \in SepPositions(s, sep) :
                        \A m \in SepPositions(s, sep) : k <= m
    IN  IF n = 0 THEN SubSeq(s, 1, first - 1)
        ELSE SplitAt(SubSeq(s, first + 1, Len(s)), sep, n - 1)

\* a // b of Python (floor division), b # 0
FloorDiv(a, b) ==
    IF b > 0
    THEN IF a >= 0 THEN a \div b ELSE 0 - (((0 - a) + b - 1) \div b)
    ELSE IF a <= 0 THEN (0 - a) \div (0 - b)
         ELSE 0 - ((a + (0 - b) - 1) \div (0 - b))

(***************************************************************************)
(* Canonical records (rows of the table), as dicts keyed by column name.   *)
(***************************************************************************)
SEP == " - "

Row(name, type, qty, barcode, date, vendor, strain, thc, cbd, source) ==
    [k \in {"Product Name*", "Product Type*", "Quantity Received*", "Barcode*",
            "Accepted Date", "Vendor", "Strain Name", "THC Content",
            "CBD Content", "Source System"} |->
        CASE k = "Product Name*" -> name
          [] k = "Product Type*" -> type
          [] k = "Quantity Received*" -> qty
          [] k = "Barcode*" -> barcode
          [] k = "Accepted Date" -> date
          [] k = "Vendor" -> vendor
          [] k = "Strain Name" -> strain
          [] k = "THC Content" -> thc
          [] k = "CBD Content" -> cbd
          [] k = "Source System" -> source]

\* The records a selection is drawn from: a complete Bamboo row, a row whose
\* name, barcode and quantity are all empty, a row with a non-numeric
\* quantity and a vendor without separator, a row with a fractional quantity
\* and two separators in the vendor, and a row with no identity whose
\* quantity is not numeric and whose other fields are empty.
RecordPool ==
    { Row(S("Gummy"), S("Edible"), S("10"), S("BC1"), S("2024-01-05"),
          <<"L1", SEP, "VendorX">>, S("Blue"), <<"21.5", "%">>, <<"0.1", "%">>,
          S("Bamboo")),
      Row(E, S("Edible"), E, E, S("2024-01-05"), <<"L1", SEP, "VendorX">>,
          E, E, E, S("Bamboo")),
      Row(S("Flower"), E, S("abc"), S("BC2"), E, S("VendorY"), E, E, E,
          S("Cultivera")),
      Row(S("Oil"), S("Extract"), S("2.5"), S("BC3"), S("2024-02-01"),
          <<"L2", SEP, "Ven", SEP, "Dor">>, E, E, E, S("Cultivera")),
      Row(E, E, S("abc"), E, E, E, E, E, E, E) }

RECURSIVE SeqsUpTo(_, _)
SeqsUpTo(pool, n) ==
    IF n = 0 THEN {<<>>}
    ELSE LET shorter == SeqsUpTo(pool, n - 1)
         IN  shorter \cup {Append(s, x) : s \in {t \in shorter : Len(t) = n - 1},
                                          x \in pool}

PageSizes == {0 - 1, 0} \cup 1..MaxN

(***************************************************************************)
(* Paginator / context builder.                                            *)
(***************************************************************************)
\* The numeric strings that occur as quantities, with int(float(q)).
NumericFloor(q) ==
    CASE q = S("10") -> 10
      [] q = S("3") -> 3
      [] q = S("2.5") -> 2

IsNumeric(q) == q \in {S("10"), S("3"), S("2.5")}

\* Mutant: the range includes its stop value.
RangeHasNext_inclusive(idx, stop, step) ==
    IF step > 0 THEN idx <= stop ELSE idx > stop

\* range(0, stop, step) still yields the index idx
RangeHasNext(idx, stop, step) ==
    IF step > 0 THEN idx < stop ELSE idx > stop

\* Mutant: the slice stops one record early.
chunk_records_short(recs, start, chunk_size) ==
    SubSeq(recs, start + 1, Min(start + chunk_size - 1, Len(recs)))

\* Mutant: the slice runs one record into the next chunk.
chunk_records_long(recs, start, chunk_size) ==
    SubSeq(recs, start + 1, Min(start + chunk_size + 1, Len(recs)))

\* records[start:start + chunk_size], start counted from 0, chunk_size > 0
chunk_records(recs, start, chunk_size) ==
    SubSeq(recs, start + 1, Min(start + chunk_size, Len(recs)))

\* (len(records) + items_per_page - 1) // items_per_page
TotalChunks(len, n) == FloorDiv(len + n - 1, n)

\* The vendor shown by the web builder.
vendor_name(record) ==
    LET v == Get(record, "Vendor", E)
    IN  IF Contains(v, S(SEP)) THEN SplitAt(v, SEP, 1) ELSE v

WebSlot(record) ==
    [ProductName |-> Get(record, "Product Name*", E),
     Barcode |-> Get(record, "Barcode*", E),
     AcceptedDate |-> Get(record, "Accepted Date", E),
     QuantityReceived |-> Get(record, "Quantity Received*", E),
     Vendor |-> Or(vendor_name(record), S("Unknown Vendor")),
     ProductType |-> Get(record, "Product Type*", E)]

\* Mutant: the padding slot carries the default vendor.
WebEmptySlot_vendor ==
    [ProductName |-> E, Barcode |-> E, AcceptedDate |-> E,
     QuantityReceived |-> E, Vendor |-> S("Unknown Vendor"), ProductType |-> E]

WebEmptySlot ==
    [ProductName |-> E, Barcode |-> E, AcceptedDate |-> E,
     QuantityReceived |-> E, Vendor |-> E, ProductType |-> E]

\* for idx, record in enumerate(chunk, 1): context[f"Label{idx}"] = {...}
RECURSIVE WebFill(_, _, _)
WebFill(chunk, idx, context) ==
    IF idx > Len(chunk) THEN context
    ELSE WebFill(chunk, idx + 1, Put(context, idx, WebSlot(chunk[idx])))

\* Mutant: the padding loop stops before the last slot.
RECURSIVE FillEmpty_short(_, _, _, _)
FillEmpty_short(context, first, last, empty) ==
    IF first >= last THEN context
    ELSE FillEmpty_short(Put(context, first, empty), first + 1, last, empty)

\* for i in range(first, items_per_page + 1): context[f"Label{i}"] = empty
RECURSIVE FillEmpty(_, _, _, _)
FillEmpty(context, first, last, empty) ==
    IF first > last THEN context
    ELSE FillEmpty(Put(context, first, empty), first + 1, last, empty)

WebContext(chunk, n) ==
    FillEmpty(WebFill(chunk, 1, <<>>), Len(chunk) + 1, n, WebEmptySlot)

\* The quantity read by the desktop builder.
DesktopQty(rec) ==
    Get(rec, "Quantity Received*", Get(rec, "Quantity*", E))

\* try: qty = int(float(qty))  except (ValueError, TypeError): qty = ""
CoerceQty(qty) == IF IsNumeric(qty) THEN IntVal(NumericFloor(qty)) ELSE E

\* Mutant: no record is skipped.
IsBlank_never(rec) == FALSE

\* if not product_name and not barcode and not qty: continue
IsBlank(rec) ==
    /\ ~Truthy(Get(rec, "Product Name*", E))
    /\ ~Truthy(Get(rec, "Barcode*", E))
    /\ ~Truthy(DesktopQty(rec))

DesktopSlot(rec) ==
    [ProductName |-> Get(rec, "Product Name*", E),
     Barcode |-> Get(rec, "Barcode*", E),
     AcceptedDate |-> Get(rec, "Accepted Date", E),
     QuantityReceived |-> CoerceQty(DesktopQty(rec)),
     Vendor |-> Get(rec, "Vendor", E),
     StrainName |-> Get(rec, "Strain Name", E),
     ProductType |-> Get(rec, "Product Type*", Get(rec, "Inventory Type", E)),
     THCContent |-> Get(rec, "THC Content", E),
     CBDContent |-> Get(rec, "CBD Content", E)]

DesktopEmptySlot ==
    [ProductName |-> E, Barcode |-> E, AcceptedDate |-> E,
     QuantityReceived |-> E, Vendor |-> E, StrainName |-> E,
     ProductType |-> E, THCContent |-> E, CBDContent |-> E]

\* slot_num = 1; for rec in chunk: ...; the result is <<context, slot_num>>
RECURSIVE DesktopFill(_, _, _, _)
DesktopFill(chunk, k, context, slot_num) ==
    IF k > Len(chunk) THEN <<context, slot_num>>
    ELSE IF IsBlank(chunk[k])
         THEN DesktopFill(chunk, k + 1, context, slot_num)
         ELSE DesktopFill(chunk, k + 1,
                          Put(context, slot_num, DesktopSlot(chunk[k])),
                          slot_num + 1)

DesktopContext(chunk, n) ==
    LET filled == DesktopFill(chunk, 1, <<>>, 1)
    IN  FillEmpty(filled[1], filled[2], n, DesktopEmptySlot)

BuildContext(b, chunk, n) ==
    IF b = "web" THEN WebContext(chunk, n) ELSE DesktopContext(chunk, n)

\* Mutant: the composer loop is given the whole second half and more.
ComposeShare_sixty(b) == 60

\* The share of the progress bar given to the composer loop.
ComposeShare(b) == IF b = "web" THEN 40 ELSE 25

Running == [status |-> "running", msg |-> E]
Failed(msg) == [status |-> "failed", msg |-> msg]
Succeeded == [status |-> "ok", msg |-> S("outpath")]

NoJson == <<>>
NoParse == [status |-> "none"]
NoDf == [columns |-> <<>>, rows |-> <<>>]
NoCsv == [status |-> "none"]

\* The dates the clock shows, in order
Days == <<S("2024-03-01"), S("2024-03-02")>>

\* No call of the normalizer has been made before the latest one.
NoCall == [result |-> [status |-> "none"], day |-> E, repeated |-> E]

\* The caller keeps result, the outcome of its previous call, and calls the
\* normalizer again today.
Previous(result) ==
    [result |-> result, day |-> earlier.repeated, repeated |-> today]

\* The value of a key that is not in the session
Absent == <<"absent">>

\* A new browser session holds none of the keys that the request handlers of
\* app.py read, write or pop.
NoSession ==
    [k \in {"df_json", "format_type", "raw_json", "output_file", "data"}
        |-> Absent]

\* No request has been answered yet.
NoResponse == [route |-> "none", kind |-> "none", to |-> "none"]

Init ==
    /\ builder \in {"web", "desktop"}
    /\ records \in SeqsUpTo(RecordPool, MaxLen)
    /\ items_per_page \in PageSizes
    /\ pc = "ready"
    /\ i = 0
    /\ current_chunk = 0
    /\ total_chunks = 0
    /\ pages = <<>>
    /\ composed = <<>>
    /\ progress = <<>>
    /\ ret = Running
    /\ json_data = NoJson
    /\ parsed = NoParse
    /\ df = NoDf
    /\ csv_out = NoCsv
    /\ today = Days[1]
    /\ earlier = NoCall
    /\ session = NoSession
    /\ response = NoResponse
    /\ recent_urls = E

\* if selected_df.empty: return False, "No data selected."
ReturnNoData ==
    /\ pc = "ready"
    /\ records = <<>>
    /\ pc' = "done"
    /\ ret' = Failed(S("No data selected."))
    /\ UNCHANGED <<builder, records, items_per_page, i, current_chunk,
                   total_chunks, pages, composed, progress>>
    /\ UNCHANGED <<jsonVars, csvVars, clockVars, webVars>>

\* total_chunks = (len(records) + 0 - 1) // 0 raises ZeroDivisionError, which
\* the outer except turns into (False, str(e)).
ReturnZeroDivision ==
    /\ pc = "ready"
    /\ records # <<>>
    /\ items_per_page = 0
    /\ pc' = "done"
    /\ ret' = Failed(S("integer division or modulo by zero"))
    /\ UNCHANGED <<builder, records, items_per_page, i, current_chunk,
                   total_chunks, pages, composed, progress>>
    /\ UNCHANGED <<jsonVars, csvVars, clockVars, webVars>>

\* records, pages = [], total_chunks, current_chunk = 0, and the loop begins
Start ==
    /\ pc = "ready"
    /\ records # <<>>
    /\ items_per_page # 0
    /\ total_chunks' = TotalChunks(Len(records), items_per_page)
    /\ current_chunk' = 0
    /\ i' = 0
    /\ pages' = <<>>
    /\ pc' = "chunks"
    /\ UNCHANGED <<builder, records, items_per_page, composed, progress, ret>>
    /\ UNCHANGED <<jsonVars, csvVars, clockVars, webVars>>

\* One iteration of "for chunk in chunk_records(records, items_per_page)" in
\* which the template renders: the page context is built and appended.
BuildPage ==
    /\ pc = "chunks"
    /\ RangeHasNext(i, Len(records), items_per_page)
    /\ current_chunk' = current_chunk + 1
    /\ progress' = Append(progress, ((current_chunk + 1) * 50) \div total_chunks)
    /\ pages' = Append(pages,
                       BuildContext(builder,
                                    chunk_records(records, i, items_per_page),
                                    items_per_page))
    /\ i' = i + items_per_page
    /\ UNCHANGED <<builder, records, items_per_page, pc, total_chunks,
                   composed, ret>>
    /\ UNCHANGED <<jsonVars, csvVars, clockVars, webVars>>

\* One iteration in which DocxTemplate, render or save raises: the web copy
\* re-raises as ValueError into the outer except, the desktop copy returns.
RenderFails ==
    /\ pc = "chunks"
    /\ RangeHasNext(i, Len(records), items_per_page)
    /\ current_chunk' = current_chunk + 1
    /\ progress' = Append(progress, ((current_chunk + 1) * 50) \div total_chunks)
    /\ pc' = "done"
    /\ ret' = Failed(<<"Error generating page ", IntVal(current_chunk + 1)>>)
    /\ UNCHANGED <<builder, records, items_per_page, i, total_chunks, pages,
                   composed>>
    /\ UNCHANGED <<jsonVars, csvVars, clockVars, webVars>>

\* Mutant: a run without pages reports success.
ReturnNoPages_succeeds ==
    /\ pc = "chunks"
    /\ ~RangeHasNext(i, Len(records), items_per_page)
    /\ pages = <<>>
    /\ pc' = "done"
    /\ ret' = Succeeded
    /\ UNCHANGED <<builder, records, items_per_page, i, current_chunk,
                   total_chunks, pages, composed, progress>>
    /\ UNCHANGED <<jsonVars, csvVars, clockVars, webVars>>

\* The loop is exhausted with no page: return False, "No documents generated."
ReturnNoPages ==
    /\ pc = "chunks"
    /\ ~RangeHasNext(i, Len(records), items_per_page)
    /\ pages = <<>>
    /\ pc' = "done"
    /\ ret' = Failed(S("No documents generated."))
    /\ UNCHANGED <<builder, records, items_per_page, i, current_chunk,
                   total_chunks, pages, composed, progress>>
    /\ UNCHANGED <<jsonVars, csvVars, clockVars, webVars>>

\* master = pages[0]; composer = Composer(master)
BeginCompose ==
    /\ pc = "chunks"
    /\ ~RangeHasNext(i, Len(records), items_per_page)
    /\ pages # <<>>
    /\ composed' = <<pages[1]>>
    /\ i' = 0
    /\ pc' = "combine"
    /\ UNCHANGED <<builder, records, items_per_page, current_chunk,
                   total_chunks, pages, progress, ret>>
    /\ UNCHANGED <<jsonVars, csvVars, clockVars, webVars>>

\* Mutant: the composer puts the page in front of the document.
AppendPage_inFront ==
    /\ pc = "combine"
    /\ i < Len(pages) - 1
    /\ progress' = Append(progress,
                          50 + (((i + 1) * ComposeShare(builder))
                                  \div (Len(pages) - 1)))
    /\ composed' = <<pages[i + 2]>> \o composed
    /\ i' = i + 1
    /\ UNCHANGED <<builder, records, items_per_page, pc, current_chunk,
                   total_chunks, pages, ret>>
    /\ UNCHANGED <<jsonVars, csvVars, clockVars, webVars>>

\* for i, doc in enumerate(pages[1:]): progress_callback(...); composer.append(doc)
AppendPage ==
    /\ pc = "combine"
    /\ i < Len(pages) - 1
    /\ progress' = Append(progress,
                          50 + (((i + 1) * ComposeShare(builder))
                                  \div (Len(pages) - 1)))
    /\ composed' = Append(composed, pages[i + 2])
    /\ i' = i + 1
    /\ UNCHANGED <<builder, records, items_per_page, pc, current_chunk,
                   total_chunks, pages, ret>>
    /\ UNCHANGED <<jsonVars, csvVars, clockVars, webVars>>

\* master.save(outpath); adjust_table_font_sizes(outpath);
\* progress_callback(100); return True, outpath
SaveDocument ==
    /\ pc = "combine"
    /\ i >= Len(pages) - 1
    /\ progress' = Append(progress, 100)
    /\ ret' = Succeeded
    /\ pc' = "done"
    /\ UNCHANGED <<builder, records, items_per_page, i, current_chunk,
                   total_chunks, pages, composed>>
    /\ UNCHANGED <<jsonVars, csvVars, clockVars, webVars>>

Next ==
    \/ ReturnNoData
    \/ ReturnZeroDivision
    \/ Start
    \/ BuildPage
    \/ RenderFails
    \/ ReturnNoPages
    \/ BeginCompose
    \/ AppendPage
    \/ SaveDocument

Spec == Init /\ [][Next]_vars

(***************************************************************************)
(* Format detector / normalizer.  JSON objects are dicts; every value the  *)
(* mappings read as a string is a string, every value they iterate is a    *)
(* list of objects and every value they call .get on is an object.  Only   *)
(* the value of the top-level key "data" is typed: JDict(d) is the object  *)
(* d, JOther a non-empty value that is not an object.                      *)
(***************************************************************************)
JDict(d) == [type |-> "dict", val |-> d]
JOther == [type |-> "other", val |-> <<>>]

\* isinstance(v, dict)
IsDict(v) == v.type = "dict"

\* bool(v) of a typed value: an empty object is falsy
TruthyValue(v) == v.type = "other" \/ DOMAIN v.val # {}

\* text.lower(), token by token
LowerToken(t) ==
    CASE t = "THC" -> "thc"
      [] t = "CBD" -> "cbd"
      [] t = "Total " -> "total "
      [] OTHER -> t

Lower(text) == [k \in 1..Len(text) |-> LowerToken(text[k])]

\* f"{value}%"
Percent(value) == value \o S("%")

\* Mutant: the time of day is kept.
DateOnly_keepTime(raw_date) == raw_date

\* raw_date.split("T")[0] if "T" in raw_date else raw_date
DateOnly(raw_date) ==
    IF Contains(raw_date, S("T")) THEN SplitAt(raw_date, "T", 0) ELSE raw_date

\* The pass over lab_result_data["potency"] of parse_bamboo_data; the result
\* is <<thc_content, cbd_content>>.
RECURSIVE BambooPotency(_, _, _, _)
BambooPotency(potency, k, thc_content, cbd_content) ==
    IF k > Len(potency) THEN <<thc_content, cbd_content>>
    ELSE IF Get(potency[k], "type", E) = S("total-thc")
         THEN BambooPotency(potency, k + 1,
                            Percent(Get(potency[k], "value", E)), cbd_content)
         ELSE IF Get(potency[k], "type", E) = S("total-cbd")
              THEN BambooPotency(potency, k + 1, thc_content,
                                 Percent(Get(potency[k], "value", E)))
              ELSE BambooPotency(potency, k + 1, thc_content, cbd_content)

BambooRecord(item, accepted_date, vendor_meta) ==
    LET lab_data == Get(item, "lab_result_data", <<>>)
        content == IF DOMAIN lab_data # {} /\ "potency" \in DOMAIN lab_data
                   THEN BambooPotency(lab_data["potency"], 1, E, E)
                   ELSE <<E, E>>
    IN  Row(Get(item, "product_name", E),
            Get(item, "inventory_type", E),
            Get(item, "qty", E),
            Or(Get(item, "inventory_id", E), Get(item, "external_id", E)),
            accepted_date, vendor_meta,
            Get(item, "strain_name", E),
            content[1], content[2], S("Bamboo"))

\* The table parse_bamboo_data returns; it raises on none of these payloads.
parse_bamboo_data(data) ==
    IF DOMAIN data = {} THEN <<>>
    ELSE LET vendor_meta == Get(data, "from_license_number", E) \o S(SEP)
                              \o Get(data, "from_license_name", E)
             raw_date == Or(Get(data, "est_arrival_at", E),
                            Get(data, "transferred_at", E))
             items == Get(data, "inventory_transfer_items", <<>>)
         IN  [k \in 1..Len(items) |->
                 BambooRecord(items[k], DateOnly(raw_date), vendor_meta)]

\* The pass over item["test_results"] of parse_cultivera_data.
RECURSIVE CultiveraResults(_, _, _, _)
CultiveraResults(test_results, k, thc_content, cbd_content) ==
    IF k > Len(test_results) THEN <<thc_content, cbd_content>>
    ELSE IF Contains(Lower(Get(test_results[k], "type", E)), S("thc"))
         THEN CultiveraResults(test_results, k + 1,
                               Percent(Get(test_results[k], "percentage", E)),
                               cbd_content)
         ELSE IF Contains(Lower(Get(test_results[k], "type", E)), S("cbd"))
              THEN CultiveraResults(test_results, k + 1, thc_content,
                                    Percent(Get(test_results[k], "percentage", E)))
              ELSE CultiveraResults(test_results, k + 1, thc_content, cbd_content)

CultiveraRecord(item, accepted_date, vendor_meta) ==
    LET product == Get(item, "product", <<>>)
        content == CultiveraResults(Get(item, "test_results", <<>>), 1, E, E)
    IN  Row(Get(product, "name", E),
            Get(product, "category", E),
            Get(item, "quantity", E),
            Or(Get(item, "barcode", E), Get(item, "id", E)),
            accepted_date, vendor_meta,
            Get(product, "strain_name", E),
            content[1], content[2], S("Cultivera"))

\* if not json_data.get("data") or not isinstance(json_data.get("data"), dict)
NotCultivera(data) ==
    \/ "data" \notin DOMAIN data
    \/ ~TruthyValue(data["data"])
    \/ ~IsDict(data["data"])

\* Mutant: one non-empty subfield is enough for the composed vendor.
CultiveraVendor_either(manifest) ==
    LET from_license == Get(manifest, "from_license", <<>>)
        name == Get(from_license, "name", E)
        vendor_license == Get(from_license, "license_number", E)
    IN  IF Truthy(vendor_license) \/ Truthy(name)
        THEN vendor_license \o S(SEP) \o name
        ELSE S("Unknown Vendor")

\* vendor_meta of parse_cultivera_data
CultiveraVendor(manifest) ==
    LET from_license == Get(manifest, "from_license", <<>>)
        name == Get(from_license, "name", E)
        vendor_license == Get(from_license, "license_number", E)
    IN  IF Truthy(vendor_license) /\ Truthy(name)
        THEN vendor_license \o S(SEP) \o name
        ELSE S("Unknown Vendor")

\* What parse_cultivera_data does: <<"table", rows>> when it returns,
\* <<"raised", message>> when it raises ValueError.
parse_cultivera_data(data) ==
    IF DOMAIN data = {} THEN <<"table", <<>>>>
    ELSE IF NotCultivera(data)
         THEN <<"raised", <<"Failed to parse Cultivera data: ",
                            "Not a valid Cultivera format">>>>
         ELSE LET manifest == Get(data["data"].val, "manifest", <<>>)
                  accepted_date == DateOnly(Get(manifest, "created_at", E))
                  items == Get(manifest, "items", <<>>)
              IN  <<"table",
                    [k \in 1..Len(items) |->
                        CultiveraRecord(items[k], accepted_date,
                                        CultiveraVendor(manifest))]>>

\* next((p.get('value') for p in potency_data if p.get('type') in types), 0),
\* as it is formatted by f"{value}"
RECURSIVE FirstPotency(_, _, _)
FirstPotency(potency_data, k, types) ==
    IF k > Len(potency_data) THEN S("0")
    ELSE IF "type" \in DOMAIN potency_data[k] /\ potency_data[k]["type"] \in types
         THEN Get(potency_data[k], "value", S("None"))
         ELSE FirstPotency(potency_data, k + 1, types)

GrowflowRecord(item, accepted_date, vendor_meta) ==
    LET potency_data == Get(Get(item, "lab_result_data", <<>>), "potency", <<>>)
    IN  Row(Get(item, "product_name", E),
            Get(item, "inventory_type", E),
            Get(item, "qty", E),
            Or(Get(item, "product_sku", E), Get(item, "inventory_id", E)),
            accepted_date, vendor_meta,
            Get(item, "strain_name", E),
            Percent(FirstPotency(potency_data, 1, {S("total-thc"), S("thc")})),
            Percent(FirstPotency(potency_data, 1, {S("total-cbd"), S("cbd")})),
            S("GrowFlow"))

\* Mutant: only inventory_transfer_items is required.
parse_growflow_data_itemsOnly(data) ==
    IF "inventory_transfer_items" \notin DOMAIN data
    THEN <<>>
    ELSE LET vendor_meta == Get(data, "from_license_number", E) \o S(SEP)
                              \o Get(data, "from_license_name", S("Unknown Vendor"))
             raw_date == Or(Get(data, "est_arrival_at", E),
                            Get(data, "transferred_at", E))
             items == Get(data, "inventory_transfer_items", <<>>)
         IN  [k \in 1..Len(items) |->
                 GrowflowRecord(items[k], DateOnly(raw_date), vendor_meta)]

\* The table parse_growflow_data returns.
parse_growflow_data(data) ==
    IF ~({"inventory_transfer_items", "from_license_number",
          "from_license_name"} \subseteq DOMAIN data)
    THEN <<>>
    ELSE LET vendor_meta == Get(data, "from_license_number", E) \o S(SEP)
                              \o Get(data, "from_license_name", S("Unknown Vendor"))
             raw_date == Or(Get(data, "est_arrival_at", E),
                            Get(data, "transferred_at", E))
             items == Get(data, "inventory_transfer_items", <<>>)
         IN  [k \in 1..Len(items) |->
                 GrowflowRecord(items[k], DateOnly(raw_date), vendor_meta)]

\* The outcome of a normalizer call: fn is the entry point called, status is
\* "table" (a DataFrame came back), "failure" (None plus a message came back)
\* or "raised" (an exception left the function).
Outcome(fn, status, table, tag, msg) ==
    [fn |-> fn, status |-> status, table |-> table, tag |-> tag, msg |-> msg]

UnknownFormatMessage ==
    <<"Unknown JSON format", ". Please use ", "Bamboo", " or ", "Cultivera",
      " format.">>

\* "data" in json_data and isinstance(json_data["data"], dict)
\*   and "manifest" in json_data["data"]
IsCultiveraShape(data) ==
    /\ "data" \in DOMAIN data
    /\ IsDict(data["data"])
    /\ "manifest" \in DOMAIN data["data"].val

\* Mutant: the Cultivera clause is tried before the Bamboo clause.
DetectFormat_cultiveraFirst(b, data) ==
    IF DOMAIN data = {} THEN "empty"
    ELSE IF IsCultiveraShape(data) THEN "Cultivera"
    ELSE IF "inventory_transfer_items" \in DOMAIN data THEN "Bamboo"
    ELSE IF b = "web" /\ "document_schema_version" \in DOMAIN data
    THEN "GrowFlow"
    ELSE "unknown"

\* Mutant: the GrowFlow clause is tried first.
DetectFormat_growflowFirst(b, data) ==
    IF DOMAIN data = {} THEN "empty"
    ELSE IF b = "web" /\ "document_schema_version" \in DOMAIN data
    THEN "GrowFlow"
    ELSE IF "inventory_transfer_items" \in DOMAIN data THEN "Bamboo"
    ELSE IF IsCultiveraShape(data) THEN "Cultivera"
    ELSE "unknown"

\* The branch parse_inventory_json of the copy b takes on the object data:
\* the if / elif chain, which only in the web copy has a GrowFlow clause.
DetectFormat(b, data) ==
    IF DOMAIN data = {} THEN "empty"
    ELSE IF "inventory_transfer_items" \in DOMAIN data THEN "Bamboo"
    ELSE IF IsCultiveraShape(data) THEN "Cultivera"
    ELSE IF b = "web" /\ "document_schema_version" \in DOMAIN data
    THEN "GrowFlow"
    ELSE "unknown"

\* parse_inventory_json of the copy b on the decoded object data
parse_inventory_json(b, data) ==
    CASE DetectFormat(b, data) = "empty" ->
            Outcome("parse_inventory_json", "failure", <<>>, E,
                    S("No data provided"))
      [] DetectFormat(b, data) = "Bamboo" ->
            Outcome("parse_inventory_json", "table", parse_bamboo_data(data),
                    S("Bamboo"), E)
      [] DetectFormat(b, data) = "Cultivera" ->
            IF parse_cultivera_data(data)[1] = "table"
            THEN Outcome("parse_inventory_json", "table",
                         parse_cultivera_data(data)[2], S("Cultivera"), E)
            ELSE Outcome("parse_inventory_json", "failure", <<>>, E,
                         S("Error parsing data: ")
                           \o parse_cultivera_data(data)[2])
      [] DetectFormat(b, data) = "GrowFlow" ->
            Outcome("parse_inventory_json", "table", parse_growflow_data(data),
                    S("GrowFlow"), E)
      [] DetectFormat(b, data) = "unknown" ->
            Outcome("parse_inventory_json", "failure", <<>>, E,
                    UnknownFormatMessage)

(***************************************************************************)
(* The JSON payloads the normalizer is run on.                             *)
(***************************************************************************)
\* Items of an inventory_transfer_items list: a complete item, the empty
\* object, an item identified by external_id only with a "thc" potency entry
\* that has no value, and a named item whose inventory_id is "".
BambooItems ==
    { [product_name |-> S("Gummy"), inventory_type |-> S("Edible"),
       qty |-> S("10"), inventory_id |-> S("BC1"), strain_name |-> S("Blue"),
       product_sku |-> S("SKU1"),
       lab_result_data |->
           [potency |-> <<[type |-> S("total-thc"), value |-> S("21.5")],
                          [type |-> S("total-cbd"), value |-> S("0.1")]>>]],
      <<>>,
      [product_name |-> S("Flower"), qty |-> S("abc"),
       external_id |-> S("EX1"),
       lab_result_data |-> [potency |-> <<[type |-> S("thc")]>>]],
      [product_name |-> S("Oil"), inventory_type |-> S("Extract"),
       inventory_id |-> E] }

\* Items of a Cultivera manifest: a complete item, the empty object, and an
\* item identified by id only.
CultiveraItems ==
    { [product |-> [name |-> S("Gummy"), category |-> S("Edible"),
                    strain_name |-> S("Blue")],
       quantity |-> S("10"), barcode |-> S("BC1"),
       test_results |-> <<[type |-> <<"Total ", "THC">>,
                           percentage |-> S("21.5")],
                          [type |-> S("CBD"), percentage |-> S("0.1")]>>],
      <<>>,
      [product |-> [name |-> S("Oil")], id |-> S("ID3"),
       quantity |-> S("2.5")] }

Timestamp == <<"2024-01-05", "T", "10:00:00">>

LicenseOpts ==
    { <<>>,
      [from_license_number |-> S("L1")],
      [from_license_number |-> S("L1"), from_license_name |-> S("VendorX")] }

DateOpts ==
    { <<>>,
      [transferred_at |-> Timestamp],
      [est_arrival_at |-> S("2024-02-01"), transferred_at |-> Timestamp] }

SchemaOpts == { <<>>, [document_schema_version |-> S("1.0")] }

FromLicenseOpts ==
    { <<>>,
      [from_license |-> [name |-> S("VendorX")]],
      [from_license |-> [name |-> S("VendorX"), license_number |-> E]],
      [from_license |-> [license_number |-> S("L1")]],
      [from_license |-> [name |-> S("VendorX"), license_number |-> S("L1")]] }

CreatedOpts == { <<>>, [created_at |-> Timestamp] }

Manifests ==
    { <<>> } \cup
    { f @@ c @@ [items |-> l] :
        f \in FromLicenseOpts, c \in CreatedOpts,
        l \in SeqsUpTo(CultiveraItems, MaxItems) }

\* Values of the key "data": not an object, the empty object, an object
\* without manifest, and objects with a manifest.
DataValues ==
    { JOther, JDict(<<>>), JDict([transfer |-> S("x")]) }
      \cup { JDict([manifest |-> m]) : m \in Manifests }

\* Payloads shaped like a Bamboo or GrowFlow transfer.
TransferPayloads ==
    { [inventory_transfer_items |-> l] @@ v @@ lic @@ d :
        l \in SeqsUpTo(BambooItems, MaxItems), v \in SchemaOpts,
        lic \in LicenseOpts, d \in DateOpts }

\* Payloads with a "data" key and no inventory_transfer_items.
DataPayloads ==
    { [data |-> x] @@ v : x \in DataValues, v \in SchemaOpts }

\* Payloads that match several clauses or none.
MixedPayloads ==
    { <<>>, [status |-> S("ok")] }
      \cup { v @@ lic : v \in SchemaOpts, lic \in LicenseOpts }
      \cup { [inventory_transfer_items |-> l] @@ [data |-> x] @@ v :
               l \in SeqsUpTo(BambooItems, 1),
               x \in { JOther, JDict(<<>>) }
                       \cup { JDict([manifest |-> [items |-> k]]) :
                                 k \in SeqsUpTo(CultiveraItems, 1) },
               v \in SchemaOpts }

Payloads == TransferPayloads \cup DataPayloads \cup MixedPayloads

DetectInit ==
    /\ builder \in {"web", "desktop"}
    /\ json_data \in Payloads
    /\ parsed = NoParse
    /\ records = <<>>
    /\ items_per_page = 0
    /\ pc = "off"
    /\ i = 0
    /\ current_chunk = 0
    /\ total_chunks = 0
    /\ pages = <<>>
    /\ composed = <<>>
    /\ progress = <<>>
    /\ ret = Running
    /\ df = NoDf
    /\ csv_out = NoCsv
    /\ today = Days[1]
    /\ earlier = NoCall
    /\ session = NoSession
    /\ response = NoResponse
    /\ recent_urls = E

\* result_df, format_type = parse_inventory_json(data)
CallParseInventoryJson ==
    /\ pc = "off"
    /\ parsed' = parse_inventory_json(builder, json_data)
    /\ earlier' = Previous(parsed)
    /\ UNCHANGED <<pagVars, json_data, csvVars, today, webVars>>

\* result_df = parse_bamboo_data(data)
CallParseBambooData ==
    /\ pc = "off"
    /\ parsed' = Outcome("parse_bamboo_data", "table",
                         parse_bamboo_data(json_data), E, E)
    /\ earlier' = Previous(parsed)
    /\ UNCHANGED <<pagVars, json_data, csvVars, today, webVars>>

\* result_df = parse_cultivera_data(data)
CallParseCultiveraData ==
    /\ pc = "off"
    /\ parsed' = IF parse_cultivera_data(json_data)[1] = "table"
                 THEN Outcome("parse_cultivera_data", "table",
                              parse_cultivera_data(json_data)[2], E, E)
                 ELSE Outcome("parse_cultivera_data", "raised", <<>>, E,
                              parse_cultivera_data(json_data)[2])
    /\ earlier' = Previous(parsed)
    /\ UNCHANGED <<pagVars, json_data, csvVars, today, webVars>>

\* parse_growflow_data(json_data), which only the web copy has
CallParseGrowflowData ==
    /\ pc = "off"
    /\ builder = "web"
    /\ parsed' = Outcome("parse_growflow_data", "table",
                         parse_growflow_data(json_data), E, E)
    /\ earlier' = Previous(parsed)
    /\ UNCHANGED <<pagVars, json_data, csvVars, today, webVars>>

DetectNext ==
    \/ CallParseInventoryJson
    \/ CallParseBambooData
    \/ CallParseCultiveraData
    \/ CallParseGrowflowData

DetectSpec == DetectInit /\ [][DetectNext]_vars

(***************************************************************************)
(* CSV normalizer.  A table is [columns, rows]: the header names in order  *)
(* and the rows, each a sequence of cells aligned with the columns.  A     *)
(* cell is a string or NaN (an empty CSV field).                           *)
(***************************************************************************)
NaN == <<"float", "nan">>

ProductNameCol == <<"Product Name", "*">>
BarcodeCol == <<"Barcode", "*">>
QuantityCol == <<"Quantity Received", "*">>
ProductTypeCol == <<"Product Type", "*">>

ColMapKeys ==
    { <<"Product Name", "*">>, S("Product Name"), S("Quantity Received"),
      <<"Quantity", "*">>, S("Quantity"), <<"Lot Number", "*">>, S("Barcode"),
      S("Lot Number"), S("Accepted Date"), S("Vendor"), S("Strain Name"),
      <<"Product Type", "*">>, S("Product Type"), S("Inventory Type") }

\* col_map[name], for name in ColMapKeys
col_map(name) ==
    CASE name \in {<<"Product Name", "*">>, S("Product Name")} -> ProductNameCol
      [] name \in {S("Quantity Received"), <<"Quantity", "*">>, S("Quantity")} ->
            QuantityCol
      [] name \in {<<"Lot Number", "*">>, S("Barcode"), S("Lot Number")} ->
            BarcodeCol
      [] name \in {<<"Product Type", "*">>, S("Product Type"),
                   S("Inventory Type")} -> ProductTypeCol
      [] OTHER -> name

\* str(n) for a small index n
IndexToken(n) == <<"0", "1", "2", "3", "4", "5", "6", "7", "8", "9">>[n + 1]

\* columns.count(x)
Count(columns, x) == Cardinality({k \in 1..Len(columns) : columns[k] = x})

\* [f"{col}_{i}" if count(col) > 1 else col for i, col in enumerate(columns)]
EnsureUnique(columns) ==
    [k \in 1..Len(columns) |->
        IF Count(columns, columns[k]) > 1
        THEN columns[k] \o <<"_", IndexToken(k - 1)>>
        ELSE columns[k]]

\* The renaming loop of the web copy; the result is the dict new_columns.
RECURSIVE RenameLoop(_, _, _, _)
RenameLoop(columns, k, new_columns, target_counts) ==
    IF k > Len(columns) THEN new_columns
    ELSE LET col == columns[k]
             base_col == SplitAt(col, "_", 0)
             target_name == col_map(base_col)
         IN  IF base_col \in ColMapKeys
             THEN IF target_name \in DOMAIN target_counts
                  THEN RenameLoop(columns, k + 1,
                         Put(new_columns, col,
                             target_name \o
                               <<"_", IndexToken(target_counts[target_name] + 1)>>),
                         Put(target_counts, target_name,
                             target_counts[target_name] + 1))
                  ELSE RenameLoop(columns, k + 1,
                         Put(new_columns, col, target_name),
                         Put(target_counts, target_name, 0))
             ELSE RenameLoop(columns, k + 1, Put(new_columns, col, col),
                             target_counts)

\* df.rename(columns=new_columns) after the uniqueness pass, web copy
WebRename(columns) ==
    LET unique == EnsureUnique(columns)
        new_columns == RenameLoop(unique, 1, <<>>, <<>>)
    IN  [k \in 1..Len(unique) |-> new_columns[unique[k]]]

\* x.strip(), for names padded with " " tokens
RECURSIVE Strip(_)
Strip(name) ==
    IF name # E /\ Head(name) = " " THEN Strip(Tail(name))
    ELSE IF name # E /\ name[Len(name)] = " "
         THEN Strip(SubSeq(name, 1, Len(name) - 1))
         ELSE name

\* df.rename(columns=lambda x: col_map.get(x.strip(), x.strip()))
DesktopRename(columns) ==
    [k \in 1..Len(columns) |-> col_map(Strip(columns[k]))]

\* [col for col in required_cols if not any(col in c for c in df.columns)]
MissingWeb(columns) ==
    SelectSeq(<<ProductNameCol, BarcodeCol>>,
              LAMBDA col : ~\E k \in 1..Len(columns) : Contains(columns[k], col))

\* [col for col in required_cols if col not in df.columns]
MissingDesktop(columns) ==
    SelectSeq(<<ProductNameCol, BarcodeCol>>,
              LAMBDA col : ~\E k \in 1..Len(columns) : columns[k] = col)

\* ', '.join(names)
RECURSIVE Join(_)
Join(names) ==
    IF names = <<>> THEN E
    ELSE IF Len(names) = 1 THEN names[1]
         ELSE names[1] \o S(", ") \o Join(Tail(names))

MissingMessage(missing_cols) ==
    S("CSV is missing required columns: ") \o Join(missing_cols)

\* any(name in c for c in columns)
AnyContains(columns, name) ==
    \E k \in 1..Len(columns) : Contains(columns[k], name)

\* The position of next(c for c in columns if name in c)
FirstContaining(columns, name) ==
    CHOOSE k \in 1..Len(columns) :
        /\ Contains(columns[k], name)
        /\ \A j \in 1..(k - 1) : ~Contains(columns[j], name)

\* df[name] = value, for a name that is not yet a column
AddColumn(table, name, value) ==
    [columns |-> Append(table.columns, name),
     rows |-> [r \in 1..Len(table.rows) |-> Append(table.rows[r], value)]]

\* df[col] = df[col].fillna(value), col given by its position
FillNa(table, c, value) ==
    [columns |-> table.columns,
     rows |-> [r \in 1..Len(table.rows) |->
                  [x \in 1..Len(table.columns) |->
                      IF x = c /\ table.rows[r][x] = NaN THEN value
                      ELSE table.rows[r][x]]]]

\* Mutant: the default vendor carries the date of the call.
WebDefaults_datedVendor(table) ==
    LET t1 == IF ~AnyContains(table.columns, S("Vendor"))
              THEN AddColumn(table, S("Vendor"), S("Unknown Vendor") \o today)
              ELSE FillNa(table, FirstContaining(table.columns, S("Vendor")),
                          S("Unknown Vendor"))
        t2 == IF ~AnyContains(t1.columns, S("Accepted Date"))
              THEN AddColumn(t1, S("Accepted Date"), today)
              ELSE t1
        t3 == IF ~AnyContains(t2.columns, ProductTypeCol)
              THEN AddColumn(t2, ProductTypeCol, S("Unknown"))
              ELSE t2
    IN  IF ~AnyContains(t3.columns, S("Strain Name"))
        THEN AddColumn(t3, S("Strain Name"), E)
        ELSE t3

\* The defaults the web copy injects for Vendor, Accepted Date,
\* Product Type* and Strain Name.
WebDefaults(table) ==
    LET t1 == IF ~AnyContains(table.columns, S("Vendor"))
              THEN AddColumn(table, S("Vendor"), S("Unknown Vendor"))
              ELSE FillNa(table, FirstContaining(table.columns, S("Vendor")),
                          S("Unknown Vendor"))
        t2 == IF ~AnyContains(t1.columns, S("Accepted Date"))
              THEN AddColumn(t1, S("Accepted Date"), today)
              ELSE t1
        t3 == IF ~AnyContains(t2.columns, ProductTypeCol)
              THEN AddColumn(t2, ProductTypeCol, S("Unknown"))
              ELSE t2
    IN  IF ~AnyContains(t3.columns, S("Strain Name"))
        THEN AddColumn(t3, S("Strain Name"), E)
        ELSE t3

\* name in df.columns
HasColumn(columns, name) == \E k \in 1..Len(columns) : columns[k] = name

\* The position of the first column called name
ColumnIndex(columns, name) ==
    CHOOSE k \in 1..Len(columns) :
        columns[k] = name /\ \A j \in 1..(k - 1) : columns[j] # name

\* The defaults the desktop copy injects.
DesktopDefaults(table) ==
    LET t1 == IF ~HasColumn(table.columns, S("Vendor"))
              THEN AddColumn(table, S("Vendor"), S("Unknown Vendor"))
              ELSE FillNa(table, ColumnIndex(table.columns, S("Vendor")),
                          S("Unknown Vendor"))
        t2 == IF ~HasColumn(t1.columns, S("Accepted Date"))
              THEN AddColumn(t1, S("Accepted Date"), today)
              ELSE t1
        t3 == IF ~HasColumn(t2.columns, ProductTypeCol)
              THEN AddColumn(t2, ProductTypeCol, S("Unknown"))
              ELSE t2
    IN  IF ~HasColumn(t3.columns, S("Strain Name"))
        THEN AddColumn(t3, S("Strain Name"), E)
        ELSE t3

\* The order of the cell values under sort_values: strings by code point,
\* NaN last.
CellRank(v) ==
    CASE v = S("Apple") -> 1
      [] v = S("Berry") -> 2
      [] v = S("Unknown") -> 3
      [] v = NaN -> 9
      [] OTHER -> 4

\* row a sorts at or before row b on the columns c1, c2
RowLeq(a, b, c1, c2) ==
    \/ CellRank(a[c1]) < CellRank(b[c1])
    \/ CellRank(a[c1]) = CellRank(b[c1]) /\ CellRank(a[c2]) <= CellRank(b[c2])

\* Stable insertion of row into the sorted sequence rows
RECURSIVE InsertRow(_, _, _, _)
InsertRow(rows, row, c1, c2) ==
    IF rows = <<>> THEN <<row>>
    ELSE IF RowLeq(rows[Len(rows)], row, c1, c2) THEN Append(rows, row)
         ELSE Append(InsertRow(SubSeq(rows, 1, Len(rows) - 1), row, c1, c2),
                     rows[Len(rows)])

RECURSIVE SortRows(_, _, _)
SortRows(rows, c1, c2) ==
    IF rows = <<>> THEN <<>>
    ELSE InsertRow(SortRows(SubSeq(rows, 1, Len(rows) - 1), c1, c2),
                   rows[Len(rows)], c1, c2)

\* try: df = df.sort_values(sort_cols, ascending=[True, True])  except: pass
\* sort_values raises when a sort label names more than one column.
WebSort(table) ==
    LET c1 == FirstContaining(table.columns, ProductTypeCol)
        c2 == FirstContaining(table.columns, ProductNameCol)
    IN  IF \/ Count(table.columns, table.columns[c1]) > 1
           \/ Count(table.columns, table.columns[c2]) > 1
        THEN table
        ELSE [columns |-> table.columns, rows |-> SortRows(table.rows, c1, c2)]

\* [col for col in df.columns if df.columns.tolist().count(col) > 1]
Duplicates(columns) == SelectSeq(columns, LAMBDA col : Count(columns, col) > 1)

\* process_csv_data of the web copy (src/app.py)
WebProcessCsv(table) ==
    LET renamed == [columns |-> WebRename(table.columns), rows |-> table.rows]
        missing_cols == MissingWeb(renamed.columns)
        sorted == WebSort(WebDefaults(renamed))
    IN  IF missing_cols # <<>>
        THEN Outcome("process_csv_data", "failure", NoDf, E,
                     MissingMessage(missing_cols))
        ELSE IF Duplicates(sorted.columns) # <<>>
             THEN Outcome("process_csv_data", "failure", NoDf, E,
                          S("Duplicate columns found: ")
                            \o Join(Duplicates(sorted.columns)))
             ELSE Outcome("process_csv_data", "table", sorted, E, S("Success"))

\* process_csv_data of the desktop copy (src/src/data/processor.py)
DesktopProcessCsv(table) ==
    LET renamed == [columns |-> DesktopRename(table.columns),
                    rows |-> table.rows]
        missing_cols == MissingDesktop(renamed.columns)
    IN  IF missing_cols # <<>>
        THEN Outcome("process_csv_data", "raised", NoDf, E,
                     S("Failed to process CSV data: ")
                       \o MissingMessage(missing_cols))
        ELSE Outcome("process_csv_data", "table", DesktopDefaults(renamed), E, E)

\* The header names a CSV file is built from: two synonyms of the product
\* name, a synonym of the barcode, a synonym of the product type, a name that
\* is in no synonym table but contains "Product Name*", and a barcode header
\* with a leading blank.
HeaderPool ==
    { S("Product Name"), <<"Product Name", "*">>, S("Barcode"),
      S("Inventory Type"), <<"Old ", "Product Name", "*">>,
      <<" ", "Lot Number">> }

\* The cell of a row of kind p in column c
CellOf(p, c) ==
    CASE p = "apple" -> S("Apple")
      [] p = "berry" -> S("Berry")
      [] p = "gaps" -> IF c % 2 = 1 THEN NaN ELSE S("Apple")

Tables ==
    { [columns |-> h,
       rows |-> [r \in 1..Len(kinds) |->
                    [c \in 1..Len(h) |-> CellOf(kinds[r], c)]]] :
        h \in SeqsUpTo(HeaderPool, MaxCols),
        kinds \in SeqsUpTo({"apple", "berry", "gaps"}, MaxRows) }

CsvInit ==
    /\ builder \in {"web", "desktop"}
    /\ df \in Tables
    /\ csv_out = NoCsv
    /\ today = Days[1]
    /\ earlier = NoCall
    /\ session = NoSession
    /\ response = NoResponse
    /\ recent_urls = E
    /\ json_data = NoJson
    /\ parsed = NoParse
    /\ records = <<>>
    /\ items_per_page = 0
    /\ pc = "off"
    /\ i = 0
    /\ current_chunk = 0
    /\ total_chunks = 0
    /\ pages = <<>>
    /\ composed = <<>>
    /\ progress = <<>>
    /\ ret = Running

\* result_df, message = process_csv_data(df)
CallProcessCsvWeb ==
    /\ pc = "off"
    /\ builder = "web"
    /\ csv_out' = WebProcessCsv(df)
    /\ earlier' = Previous(csv_out)
    /\ UNCHANGED <<pagVars, jsonVars, df, today, webVars>>

\* df = process_csv_data(df)
CallProcessCsvDesktop ==
    /\ pc = "off"
    /\ builder = "desktop"
    /\ csv_out' = DesktopProcessCsv(df)
    /\ earlier' = Previous(csv_out)
    /\ UNCHANGED <<pagVars, jsonVars, df, today, webVars>>

CsvNext == CallProcessCsvWeb \/ CallProcessCsvDesktop

CsvSpec == CsvInit /\ [][CsvNext]_vars

(***************************************************************************)
(* Properties of the paginator.                                            *)
(***************************************************************************)
\* ceil(len / n) for n > 0, defined without the code's arithmetic
Ceil(len, n) == CHOOSE k \in 0..len : k * n >= len /\ (k - 1) * n < len

\* The chunk loop has run to its end and the run has not failed.
ChunksDone == pc \in {"combine", "done"} /\ ret.status # "failed"

\* The records of page p according to the fixed-size partition of the input.
PageRecords(p) ==
    SubSeq(records, (p - 1) * items_per_page + 1,
           Min(p * items_per_page, Len(records)))

\* A record the desktop builder leaves out: name, barcode, quantity all empty.
Skipped(r) ==
    /\ builder = "desktop"
    /\ r["Product Name*"] = E
    /\ r["Barcode*"] = E
    /\ r["Quantity Received*"] = E

\* The records placed on page p, in order.
Placed(p) == SelectSeq(PageRecords(p), LAMBDA r : ~Skipped(r))

\* A slot holds a record: the fields both builders copy are the record's.
Holds(slot, r) ==
    /\ slot.ProductName = r["Product Name*"]
    /\ slot.Barcode = r["Barcode*"]
    /\ slot.AcceptedDate = r["Accepted Date"]
    /\ slot.ProductType = r["Product Type*"]

AllEmpty(slot) == \A f \in DOMAIN slot : slot[f] = E

\* C1: for L >= 1 records and page size N > 0 a run that gets through the
\* chunk loop has built exactly ceil(L/N) page contexts, chunk_records has
\* yielded ceil(L/N) chunks and total_chunks is that number.
C1_PageCount ==
    (ChunksDone /\ Len(records) >= 1 /\ items_per_page > 0) =>
        /\ Len(pages) = Ceil(Len(records), items_per_page)
        /\ current_chunk = Ceil(Len(records), items_per_page)
        /\ total_chunks = Ceil(Len(records), items_per_page)

C1_Witness ==
    /\ pc = "done" /\ ret.status = "ok"
    /\ Len(records) = 3 /\ items_per_page = 2
    /\ Len(pages) = 2 /\ total_chunks = 2

\* C2: every page context built, the last one included, has exactly the keys
\* Label1..LabelN.
C2_ExactlyNSlots ==
    \A p \in 1..Len(pages) : DOMAIN pages[p] = 1..items_per_page

C2_Witness ==
    /\ pc = "done" /\ ret.status = "ok"
    /\ Len(records) = 3 /\ items_per_page = 2
    /\ Len(pages) = 2 /\ DOMAIN pages[2] = {1, 2}

\* C4: on every page with k placed records, slots 1..k hold those records in
\* order and every field of every slot k+1..N is the empty string.
C4_FilledThenPadding ==
    \A p \in 1..Len(pages) :
        LET k == Len(Placed(p))
        IN  /\ k <= items_per_page
            /\ \A s \in 1..k : Holds(pages[p][s], Placed(p)[s])
            /\ \A s \in (k + 1)..items_per_page : AllEmpty(pages[p][s])

C4_Witness ==
    /\ pc = "done" /\ ret.status = "ok"
    /\ Len(records) = 1 /\ items_per_page = 3
    /\ pages[1][1].ProductName = S("Gummy")
    /\ AllEmpty(pages[1][2]) /\ AllEmpty(pages[1][3])

\* The slots of page context ctx, in slot order.
SlotSeq(ctx) == [s \in 1..items_per_page |-> ctx[s]]

\* The non-empty slots of all pages, in page order and then slot order.
RECURSIVE NonEmptySlots(_)
NonEmptySlots(ps) ==
    IF ps = <<>> THEN <<>>
    ELSE SelectSeq(SlotSeq(Head(ps)), LAMBDA slot : ~AllEmpty(slot))
           \o NonEmptySlots(Tail(ps))

\* The column a slot field is read from.
ColumnOf(f) ==
    CASE f = "ProductName" -> "Product Name*"
      [] f = "Barcode" -> "Barcode*"
      [] f = "AcceptedDate" -> "Accepted Date"
      [] f = "QuantityReceived" -> "Quantity Received*"
      [] f = "Vendor" -> "Vendor"
      [] f = "StrainName" -> "Strain Name"
      [] f = "ProductType" -> "Product Type*"
      [] f = "THCContent" -> "THC Content"
      [] f = "CBDContent" -> "CBD Content"

DesktopVisible(r) ==
    \/ \E c \in {"Product Name*", "Barcode*", "Accepted Date", "Vendor",
                 "Strain Name", "Product Type*", "THC Content", "CBD Content"} :
           r[c] # E
    \/ r["Quantity Received*"] \in {S("10"), S("3"), S("2.5")}

\* The records that come back as a non-empty slot.
Kept(r) == builder = "web" \/ (~Skipped(r) /\ DesktopVisible(r))

AutoDetected == parsed.status # "none" /\ parsed.fn = "parse_inventory_json"

HasItemsKey == "inventory_transfer_items" \in DOMAIN json_data

\* The top-level key data is an object that contains the key manifest.
HasManifest ==
    /\ "data" \in DOMAIN json_data
    /\ json_data["data"].type = "dict"
    /\ "manifest" \in DOMAIN json_data["data"].val

\* C5: with inventory_transfer_items present, the payload is mapped as
\* GrowFlow and tagged GrowFlow when document_schema_version is present too,
\* and mapped as Bamboo and tagged Bamboo otherwise.
C5_SecondaryDiscriminator ==
    (AutoDetected /\ HasItemsKey) =>
        /\ parsed.status = "table"
        /\ IF "document_schema_version" \in DOMAIN json_data
           THEN /\ parsed.tag = S("GrowFlow")
                /\ parsed.table = parse_growflow_data(json_data)
           ELSE /\ parsed.tag = S("Bamboo")
                /\ parsed.table = parse_bamboo_data(json_data)

\* C6: without inventory_transfer_items, a data object containing manifest
\* is returned as the Cultivera table (one Cultivera row per manifest item)
\* tagged Cultivera; with inventory_transfer_items the result is never
\* Cultivera.
C6_CultiveraClause ==
    AutoDetected =>
        /\ (~HasItemsKey /\ HasManifest) =>
              /\ parsed.status = "table"
              /\ parsed.tag = S("Cultivera")
              /\ Len(parsed.table)
                   = Len(Get(json_data["data"].val["manifest"], "items", <<>>))
              /\ \A k \in 1..Len(parsed.table) :
                     parsed.table[k]["Source System"] = S("Cultivera")
        /\ HasItemsKey =>
              /\ parsed.tag # S("Cultivera")
              /\ \A k \in 1..Len(parsed.table) :
                     parsed.table[k]["Source System"] # S("Cultivera")

C6_Witness ==
    /\ AutoDetected
    /\ ~HasItemsKey /\ HasManifest
    /\ parsed.tag = S("Cultivera")
    /\ Len(parsed.table) = 2
    /\ parsed.table[1]["Barcode*"] = S("ID3")

\* C7: a non-empty object with neither inventory_transfer_items nor a data
\* object containing manifest gets a failure whose message names the unknown
\* format and lists Bamboo, Cultivera and GrowFlow.
C7_UnknownFormat ==
    (AutoDetected /\ DOMAIN json_data # {} /\ ~HasItemsKey /\ ~HasManifest) =>
        /\ parsed.status = "failure"
        /\ Contains(parsed.msg, S("Unknown JSON format"))
        /\ \A format \in {"Bamboo", "Cultivera", "GrowFlow"} :
               Contains(parsed.msg, S(format))

\* C8: parse_cultivera_data on a payload whose data object has no manifest
\* key does not return a table; it fails.
C8_NoManifestFails ==
    ( /\ parsed.status # "none"
      /\ parsed.fn = "parse_cultivera_data"
      /\ "data" \in DOMAIN json_data
      /\ json_data["data"].type = "dict"
      /\ "manifest" \notin DOMAIN json_data["data"].val ) =>
        parsed.status = "raised"

\* C10: every record of a successful normalization result has a non-empty
\* ProductName and a non-empty Barcode.
C10_IdentityNonEmpty ==
    parsed.status = "table" =>
        \A k \in 1..Len(parsed.table) :
            /\ parsed.table[k]["Product Name*"] # E
            /\ parsed.table[k]["Barcode*"] # E

(***************************************************************************)
(* Properties of the CSV normalizer.                                       *)
(***************************************************************************)
\* No header of the table resolves to target through the synonym table
\* (blanks around the name ignored).
NoColumnFor(target) ==
    \A k \in 1..Len(df.columns) : col_map(Strip(df.columns[k])) # target

\* C9: when no column resolves to ProductName or none resolves to Barcode,
\* process_csv_data reports the missing-columns failure, names every missing
\* column in it and returns no table.
C9_MissingColumns ==
    \A target \in {ProductNameCol, BarcodeCol} :
        (csv_out.status # "none" /\ NoColumnFor(target)) =>
            /\ csv_out.status \in {"failure", "raised"}
            /\ csv_out.table = NoDf
            /\ Contains(csv_out.msg, S("CSV is missing required columns: "))
            /\ Contains(csv_out.msg, target)

(***************************************************************************)
(* Error propagation and quantity coercion.                                *)
(***************************************************************************)
\* C11: no normalizer entry point lets an exception leave it, and an object
\* that matches no format reaches the caller as a failure result with a
\* message and no table.
C11_NoExceptionEscapes ==
    /\ parsed.status # "raised"
    /\ (parsed.status # "none" /\ parsed.fn = "parse_inventory_json"
          /\ DetectFormat(builder, json_data) = "unknown") =>
           (parsed.status = "failure" /\ parsed.msg # E /\ parsed.table = <<>>)

\* float(q) then int(...) of a quantity string, where it succeeds
CoercedQuantity(q) == IntVal(NumericFloor(q))

\* C12: the slot of every placed record has the float-then-int value of the
\* record's quantity when the quantity is numeric and the record's original
\* quantity string, unchanged, when it is not.
C12_QuantityCoercion ==
    \A p \in 1..Len(pages) :
        \A s \in 1..Len(Placed(p)) :
            LET q == Placed(p)[s]["Quantity Received*"]
            IN  pages[p][s].QuantityReceived =
                    IF IsNumeric(q) THEN CoercedQuantity(q) ELSE q

(***************************************************************************)
(* The pipeline: a pasted payload is normalized, rows of the table are     *)
(* selected and the selection is paginated.                                *)
(***************************************************************************)
\* The default of items_per_page
ExamplePageSize == 4

ExampleItem ==
    [product_name |-> S("Gummy"), inventory_type |-> S("Edible"),
     qty |-> S("10"), inventory_id |-> S("BC1")]

ExamplePayload ==
    [inventory_transfer_items |-> <<ExampleItem>>,
     from_license_number |-> S("L1"), from_license_name |-> S("VendorX"),
     transferred_at |-> Timestamp]

\* Transfers of example items and empty items, with and without the licence
\* and date keys.
PipelinePayloads ==
    { [inventory_transfer_items |-> l] @@ lic @@ d :
        l \in SeqsUpTo({ExampleItem, <<>>}, MaxItems),
        lic \in LicenseOpts, d \in DateOpts }

PipelineInit ==
    /\ builder \in {"web", "desktop"}
    /\ json_data \in PipelinePayloads
    /\ items_per_page \in PageSizes \cup {ExamplePageSize}
    /\ parsed = NoParse
    /\ records = <<>>
    /\ pc = "off"
    /\ i = 0
    /\ current_chunk = 0
    /\ total_chunks = 0
    /\ pages = <<>>
    /\ composed = <<>>
    /\ progress = <<>>
    /\ ret = Running
    /\ df = NoDf
    /\ csv_out = NoCsv
    /\ today = Days[1]
    /\ earlier = NoCall
    /\ session = NoSession
    /\ response = NoResponse
    /\ recent_urls = E

\* df.iloc[selected_indices], the indices in increasing order
RECURSIVE SelectRows(_, _, _)
SelectRows(table, selected_indices, k) ==
    IF k > Len(table) THEN <<>>
    ELSE (IF k \in selected_indices THEN <<table[k]>> ELSE <<>>)
           \o SelectRows(table, selected_indices, k + 1)

\* The user ticks a non-empty set of rows of the imported table and asks for
\* the slips; an empty selection is turned away before the builder is called.
SelectRecords ==
    /\ pc = "off"
    /\ parsed.status = "table"
    /\ \E selected_indices \in SUBSET (1..Len(parsed.table)) :
          /\ selected_indices # {}
          /\ records' = SelectRows(parsed.table, selected_indices, 1)
    /\ pc' = "ready"
    /\ UNCHANGED <<builder, items_per_page, i, current_chunk, total_chunks,
                   pages, composed, progress, ret>>
    /\ UNCHANGED <<jsonVars, csvVars, clockVars, webVars>>

PipelineNext ==
    \/ CallParseInventoryJson
    \/ SelectRecords
    \/ ReturnZeroDivision
    \/ Start
    \/ BuildPage
    \/ RenderFails
    \/ ReturnNoPages
    \/ BeginCompose
    \/ AppendPage
    \/ SaveDocument

PipelineSpec == PipelineInit /\ [][PipelineNext]_vars

(***************************************************************************)
(* Properties of the pipeline.                                             *)
(***************************************************************************)
\* The record of the Bamboo example
ExampleRecord ==
    Row(S("Gummy"), S("Edible"), S("10"), S("BC1"), S("2024-01-05"),
        <<"L1", SEP, "VendorX">>, E, E, E, S("Bamboo"))

\* The example payload has been normalized.
ExampleParsed == json_data = ExamplePayload /\ parsed.status # "none"

\* The example has been paginated with page size 4.
ExamplePaginated ==
    /\ ExampleParsed
    /\ items_per_page = ExamplePageSize
    /\ ChunksDone

\* C13 as stated: the example normalizes to exactly the one record, and with
\* page size 4 there is exactly one page whose slot 1 has the record's value
\* in every field and whose slots 2-4 are empty.
C13_Original ==
    /\ ExampleParsed =>
          /\ parsed.status = "table"
          /\ parsed.tag = S("Bamboo")
          /\ parsed.table = <<ExampleRecord>>
    /\ ExamplePaginated =>
          /\ Len(pages) = 1
          /\ DOMAIN pages[1] = 1..4
          /\ \A f \in DOMAIN pages[1][1] :
                 pages[1][1][f] = ExampleRecord[ColumnOf(f)]
          /\ \A s \in 2..4 : AllEmpty(pages[1][s])

\* C13 (amended): the example normalizes to exactly the one record, and with
\* page size 4 there is exactly one page whose slot 1 has the record's
\* ProductName, Barcode, AcceptedDate and ProductType, the quantity "10" in
\* the web builder and the integer 10 in the desktop builder, the vendor
\* "VendorX" in the web builder and "L1 - VendorX" in the desktop builder,
\* and whose slots 2-4 are empty.
C13_Amended ==
    /\ ExampleParsed =>
          /\ parsed.status = "table"
          /\ parsed.tag = S("Bamboo")
          /\ parsed.table = <<ExampleRecord>>
    /\ ExamplePaginated =>
          /\ Len(pages) = 1
          /\ DOMAIN pages[1] = 1..4
          /\ Holds(pages[1][1], ExampleRecord)
          /\ pages[1][1].QuantityReceived =
                 IF builder = "web" THEN S("10") ELSE IntVal(10)
          /\ pages[1][1].Vendor =
                 IF builder = "web" THEN S("VendorX")
                 ELSE <<"L1", SEP, "VendorX">>
          /\ \A s \in 2..4 : AllEmpty(pages[1][s])

C13_Witness ==
    /\ ExamplePaginated
    /\ pc = "done" /\ ret.status = "ok"
    /\ Len(pages) = 1
    /\ pages[1][1].Barcode = S("BC1")
    /\ AllEmpty(pages[1][4])

(***************************************************************************)
(* Vendor format, progress, composer order, slot fields, GrowFlow mapping. *)
(***************************************************************************)
\* "<license_number> - <vendor_name>" with both parts non-empty
VendorComposed(v) == \E k \in 2..(Len(v) - 1) : v[k] = SEP

\* C14: the Vendor of every record of a table produced by a JSON mapping is
\* "<license_number> - <vendor_name>" with both parts non-empty, or exactly
\* "Unknown Vendor".
C14_VendorFormat ==
    parsed.status = "table" =>
        \A k \in 1..Len(parsed.table) :
            \/ parsed.table[k]["Vendor"] = S("Unknown Vendor")
            \/ VendorComposed(parsed.table[k]["Vendor"])

\* C15: the values passed to progress_callback are non-decreasing and within
\* 0..100; those of the chunk loop are within 0..50 and the last chunk
\* reports 50; those of the composer loop are within 50..90; 100 is reported
\* only as the last value of a successful run, and every successful run
\* reports it.
C15_Progress ==
    LET n == Len(progress)
    IN  /\ \A k \in 1..n : progress[k] \in 0..100
        /\ \A k \in 1..(n - 1) : progress[k] <= progress[k + 1]
        /\ \A k \in 1..n : k <= current_chunk => progress[k] \in 0..50
        /\ (ChunksDone /\ current_chunk >= 1) => progress[current_chunk] = 50
        /\ \A k \in 1..n :
               (k > current_chunk /\ progress[k] # 100) => progress[k] \in 50..90
        /\ \A k \in 1..n :
               progress[k] = 100 => (k = n /\ pc = "done" /\ ret.status = "ok")
        /\ (pc = "done" /\ ret.status = "ok") => (n >= 1 /\ progress[n] = 100)

C15_Witness ==
    /\ pc = "done" /\ ret.status = "ok"
    /\ builder = "web"
    /\ Len(pages) = 3
    /\ progress = <<16, 33, 50, 70, 90, 100>>

\* C17: the composer holds the pages in pagination order: the page of chunk
\* 1 is the master, the pages of chunks 2, 3, ... follow in increasing order,
\* each once, and page p of the composed document carries the records placed
\* on page p.
C17_ComposerOrder ==
    /\ pc = "chunks" => composed = <<>>
    /\ pc = "combine" => composed = SubSeq(pages, 1, i + 1)
    /\ (pc = "done" /\ ret.status = "ok") => composed = pages
    /\ \A p \in 1..Len(composed) :
           \A s \in 1..Len(Placed(p)) : Holds(composed[p][s], Placed(p)[s])

C17_Witness ==
    /\ pc = "done" /\ ret.status = "ok"
    /\ items_per_page = 1
    /\ Len(composed) = 3
    /\ composed[1] # composed[2] /\ composed[2] # composed[3]
    /\ composed[1] # composed[3]
    /\ composed[3][1].Barcode = records[3]["Barcode*"]

\* The fields the template reads from a slot
NineFields ==
    {"ProductName", "Barcode", "AcceptedDate", "QuantityReceived", "Vendor",
     "StrainName", "ProductType", "THCContent", "CBDContent"}

\* C18: every slot of every page context, filled or padding, has exactly the
\* nine fields, in the web and in the desktop builder.
C18_NineFields ==
    \A p \in 1..Len(pages) :
        \A s \in DOMAIN pages[p] : DOMAIN pages[p][s] = NineFields

\* parse_growflow_data has been called on the payload.
GrowflowCalled == parsed.status # "none" /\ parsed.fn = "parse_growflow_data"

CultiveraRows ==
    /\ parsed.status = "table"
    /\ parsed.fn = "parse_cultivera_data" \/ parsed.tag = S("Cultivera")
    /\ Len(parsed.table) >= 1

\* data.manifest.from_license of the payload, {} when absent
FromLicense == Get(json_data["data"].val["manifest"], "from_license", <<>>)

\* C20: every record of a Cultivera table has the Vendor
\* "<license_number> - <name>" of data.manifest.from_license when both
\* subfields are present and non-empty, and "Unknown Vendor" otherwise.
C20_CultiveraVendor ==
    CultiveraRows =>
        \A k \in 1..Len(parsed.table) :
            parsed.table[k]["Vendor"] =
                IF /\ "license_number" \in DOMAIN FromLicense
                   /\ "name" \in DOMAIN FromLicense
                   /\ FromLicense["license_number"] # E
                   /\ FromLicense["name"] # E
                THEN FromLicense["license_number"] \o <<" - ">>
                       \o FromLicense["name"]
                ELSE S("Unknown Vendor")

C20_Witness ==
    /\ CultiveraRows
    /\ parsed.fn = "parse_cultivera_data"
    /\ Len(parsed.table) = 2
    /\ parsed.table[1]["Vendor"] = <<"L1", " - ", "VendorX">>
    /\ parsed.table[2]["Vendor"] = <<"L1", " - ", "VendorX">>

(***************************************************************************)
(* Repeated normalization: a caller holds one input, a JSON payload or a   *)
(* CSV table, and normalizes it again and again while the date may change. *)
(***************************************************************************)
\* The tables of the repeated runs
RepeatTables ==
    {t \in Tables : /\ t # NoDf
                    /\ Len(t.columns) <= MaxCols - 1
                    /\ Len(t.rows) <= MaxRows - 1}

NormalizeInit ==
    /\ builder \in {"web", "desktop"}
    /\ \/ json_data \in Payloads /\ df = NoDf
       \/ json_data = NoJson /\ df \in RepeatTables
    /\ parsed = NoParse
    /\ csv_out = NoCsv
    /\ today = Days[1]
    /\ earlier = NoCall
    /\ session = NoSession
    /\ response = NoResponse
    /\ recent_urls = E
    /\ records = <<>>
    /\ items_per_page = 0
    /\ pc = "off"
    /\ i = 0
    /\ current_chunk = 0
    /\ total_chunks = 0
    /\ pages = <<>>
    /\ composed = <<>>
    /\ progress = <<>>
    /\ ret = Running

\* The date changes.
Midnight ==
    /\ today = Days[1]
    /\ today' = Days[2]
    /\ UNCHANGED <<pagVars, jsonVars, csvVars, earlier, webVars>>

NormalizeNext ==
    \/ df = NoDf /\ CallParseInventoryJson
    \/ df # NoDf /\ CallProcessCsvWeb
    \/ df # NoDf /\ CallProcessCsvDesktop
    \/ Midnight

NormalizeSpec == NormalizeInit /\ [][NormalizeNext]_vars

(***************************************************************************)
(* Properties of repeated normalization.                                   *)
(***************************************************************************)
\* The same entry point has been called twice in a row on the input.
JsonTwice ==
    /\ earlier.result.status # "none"
    /\ earlier.result.fn = "parse_inventory_json"
    /\ parsed.fn = "parse_inventory_json"

CsvTwice ==
    /\ earlier.result.status # "none"
    /\ earlier.result.fn = "process_csv_data"

SameButDates(a, b) ==
    /\ a.status = b.status
    /\ a.msg = b.msg
    /\ a.table.columns = b.table.columns
    /\ Len(a.table.rows) = Len(b.table.rows)
    /\ \A r \in 1..Len(a.table.rows) :
           \A c \in 1..Len(a.table.columns) :
               a.table.columns[c] # S("Accepted Date") =>
                   a.table.rows[r][c] = b.table.rows[r][c]

C21_DistinctColumns ==
    csv_out.status = "table" =>
        \A a, b \in 1..Len(csv_out.table.columns) :
            a # b => csv_out.table.columns[a] # csv_out.table.columns[b]

\* The table has exactly one column of each of the two names.
SortColumnsPresent(table) ==
    /\ Count(table.columns, ProductTypeCol) = 1
    /\ Count(table.columns, ProductNameCol) = 1

\* C22: in a table process_csv_data returns, the (ProductType, ProductName)
\* pair of every row is less than or equal to that of the row after it.
C22_RowsSorted ==
    (csv_out.status = "table" /\ SortColumnsPresent(csv_out.table)) =>
        LET type == ColumnIndex(csv_out.table.columns, ProductTypeCol)
            name == ColumnIndex(csv_out.table.columns, ProductNameCol)
            rows == csv_out.table.rows
        IN  \A r \in 1..(Len(rows) - 1) :
                \/ CellRank(rows[r][type]) < CellRank(rows[r + 1][type])
                \/ /\ CellRank(rows[r][type]) = CellRank(rows[r + 1][type])
                   /\ CellRank(rows[r][name]) <= CellRank(rows[r + 1][name])

(***************************************************************************)
(* Vendor display and product-type default.                                *)
(***************************************************************************)
\* The whole of v after its first separator
AfterFirstSeparator(v) ==
    LET first == CHOOSE k \in SepPositions(v, SEP) :
                    \A m \in SepPositions(v, SEP) : k <= m
    IN  SubSeq(v, first + 1, Len(v))

\* C23: the web slot of a record shows the whole of the record's Vendor
\* after the first " - " when the Vendor has one, the Vendor unchanged when
\* it has none, and "Unknown Vendor" when it is empty; the desktop slot
\* shows the record's Vendor unchanged.
C23_VendorDisplay ==
    \A p \in 1..Len(pages) :
        \A s \in 1..Len(Placed(p)) :
            LET v == Placed(p)[s]["Vendor"]
            IN  pages[p][s].Vendor =
                    IF builder = "desktop" THEN v
                    ELSE IF SepPositions(v, SEP) # {} THEN AfterFirstSeparator(v)
                    ELSE IF v = E THEN S("Unknown Vendor")
                    ELSE v

\* The source item of row k of the table carries no product type.
TypeMissing(k) ==
    IF parsed.table[k]["Source System"] = S("Cultivera")
    THEN "category" \notin
            DOMAIN Get(json_data["data"].val["manifest"]["items"][k],
                       "product", <<>>)
    ELSE "inventory_type" \notin DOMAIN json_data["inventory_transfer_items"][k]

\* C24: a record whose source item carries no product type has the
\* ProductType "Unknown".
C24_UnknownType ==
    parsed.status = "table" =>
        \A k \in 1..Len(parsed.table) :
            TypeMissing(k) => parsed.table[k]["Product Type*"] = S("Unknown")

(***************************************************************************)
(* GrowFlow detection, chunking, page size, blank records.                 *)
(***************************************************************************)
\* C25: a table that auto-detection tags GrowFlow is empty, and comes from a
\* payload without inventory_transfer_items.
C25_NoGrowflowTable ==
    (AutoDetected /\ parsed.tag = S("GrowFlow")) =>
        /\ parsed.table = <<>>
        /\ ~HasItemsKey

C25_Witness ==
    /\ AutoDetected
    /\ parsed.status = "table"
    /\ parsed.tag = S("GrowFlow")
    /\ "from_license_name" \in DOMAIN json_data
    /\ parsed.table = <<>>

\* The number of slots of page context ctx that the web builder filled
WebFilled(ctx) == Cardinality({s \in DOMAIN ctx : ctx[s].Vendor # E})

\* C26: for chunk size N > 0 the chunks of a list of length L are non-empty,
\* of length N except the last, which has L - N*(ceil(L/N) - 1) records, and
\* chunk p holds the records at the positions (p-1)*N+1 .. min(p*N, L); the
\* pages of the web builder have that many filled slots.
C26_Partition ==
    items_per_page > 0 =>
        LET L == Len(records)
            N == items_per_page
            n == Ceil(L, N)
        IN  /\ \A p \in 1..n :
                   LET chunk == chunk_records(records, (p - 1) * N, N)
                   IN  /\ chunk # <<>>
                       /\ Len(chunk) = IF p < n THEN N ELSE L - N * (n - 1)
                       /\ \A j \in 1..Len(chunk) :
                              chunk[j] = records[(p - 1) * N + j]
            /\ builder = "web" =>
                   \A p \in 1..Len(pages) :
                       WebFilled(pages[p]) =
                           IF p < n THEN N ELSE L - N * (n - 1)

C26_Witness ==
    /\ pc = "done" /\ ret.status = "ok"
    /\ builder = "web"
    /\ Len(records) = 3 /\ items_per_page = 2
    /\ WebFilled(pages[1]) = 2 /\ WebFilled(pages[2]) = 1
    /\ pages[2][1].Barcode = records[3]["Barcode*"]

\* C27: with a page size of zero or less and a non-empty selection no page
\* is built, nothing is composed, 100 is never reported and the run ends in
\* a failure result with a message.
C27_NonPositivePageSize ==
    (items_per_page <= 0 /\ records # <<>>) =>
        /\ pages = <<>>
        /\ composed = <<>>
        /\ \A k \in 1..Len(progress) : progress[k] # 100
        /\ ret.status # "ok"
        /\ pc = "done" => (ret.status = "failed" /\ ret.msg # E)

C27_Witness ==
    /\ pc = "done"
    /\ items_per_page < 0
    /\ Len(records) = 2
    /\ ret = Failed(S("No documents generated."))

\* C28: on a page of the desktop builder with k records that are not blank,
\* slots 1..k carry those records in order, slots k+1..N are padding, and a
\* blank record (ProductName, Barcode and quantity all empty) takes no slot.
C28_BlankSkipped ==
    builder = "desktop" =>
        \A p \in 1..Len(pages) :
            LET k == Len(Placed(p))
            IN  /\ DOMAIN pages[p] = 1..items_per_page
                /\ \A s \in 1..k :
                       /\ Holds(pages[p][s], Placed(p)[s])
                       /\ pages[p][s].Vendor = Placed(p)[s]["Vendor"]
                       /\ pages[p][s].StrainName = Placed(p)[s]["Strain Name"]
                /\ \A s \in (k + 1)..items_per_page :
                       pages[p][s] = DesktopEmptySlot

C28_Witness ==
    /\ builder = "desktop"
    /\ pc = "done" /\ ret.status = "ok"
    /\ Len(records) = 2 /\ items_per_page = 2
    /\ Skipped(records[1])
    /\ pages[1][1].ProductName = S("Gummy")
    /\ AllEmpty(pages[1][2])

(***************************************************************************)
(* The web application's request handlers (src/app.py): what they keep in  *)
(* the browser session and in the saved list of recent URLs.               *)
(***************************************************************************)

\* recent_urls = recent_urls[:10]
MaxRecent == 10

\* s.split(sep): every piece, in order
RECURSIVE SplitAll(_, _)
SplitAll(s, sep) ==
    IF SepPositions(s, sep) = {} THEN <<s>>
    ELSE <<SplitAt(s, sep, 0)>>
         \o SplitAll(SubSeq(s, Len(SplitAt(s, sep, 0)) + 2, Len(s)), sep)

\* '|'.join(urls)
RECURSIVE JoinPipe(_)
JoinPipe(urls) ==
    IF urls = <<>> THEN E
    ELSE IF Len(urls) = 1 THEN urls[1]
         ELSE urls[1] \o S("|") \o JoinPipe(Tail(urls))

\* config['PATHS'].get('recent_urls', '').split('|'), then
\* [u for u in recent_urls if u]
RecentList(saved) == SelectSeq(SplitAll(saved, "|"), Truthy)

\* url in urls
InList(url, urls) == \E k \in 1..Len(urls) : urls[k] = url

\* if url not in recent_urls: recent_urls.insert(0, url);
\* recent_urls = recent_urls[:10]; config[...] = '|'.join(recent_urls);
\* save_config(config).  The result is the saved value.
RememberUrl(saved, url) ==
    IF InList(url, RecentList(saved)) THEN saved
    ELSE LET urls == <<url>> \o RecentList(saved)
         IN  JoinPipe(SubSeq(urls, 1, Min(MaxRecent, Len(urls))))

\* URL number n of the MaxRecent + 1 URLs a user loads; the first one is not
\* a Bamboo URL
Url(n) ==
    <<"https://", IF n = 1 THEN "growflow" ELSE "bamboo", ".example/t/",
      <<"1", "2", "3", "4", "5", "6", "7", "8", "9", "10", "11">>[n]>>

\* A Bamboo URL whose query string lists two ids separated by "|"
PipedUrl == <<"https://", "bamboo", ".example/t?ids=", "1", "|", "2">>

\* The highest n with Url(n) in the list urls, 0 when there is none
Highest(urls) ==
    LET listed == {n \in 1..(MaxRecent + 1) : InList(Url(n), urls)}
    IN  IF listed = {} THEN 0
        ELSE CHOOSE n \in listed : \A m \in listed : m <= n

\* The URLs a request may carry: the empty field, a numbered URL that is in
\* the saved list, the next numbered URL, and, while the saved list holds at
\* most MaxPipedAt entries, the piped URL
Urls ==
    LET urls == RecentList(recent_urls)
        next == Highest(urls) + 1
    IN  {E}
        \cup {Url(n) : n \in {m \in 1..(MaxRecent + 1) :
                                InList(Url(m), urls) \/ m = next}}
        \cup (IF Len(urls) <= MaxPipedAt THEN {PipedUrl} ELSE {})

\* "bamboo" in url.lower() or "getbamboo" in url.lower()
IsBambooUrl(url) ==
    \/ Contains(Lower(url), S("bamboo"))
    \/ Contains(Lower(url), S("getbamboo"))

\* The format names the normalizer reports for a JSON payload
JsonFormats == {"Bamboo", "Cultivera", "GrowFlow"}

\* result_df.to_json(orient='records') of a table of the given format
TableJson(format_type) == <<"records", format_type>>

\* session['df_json'] = ...; session['format_type'] = 'CSV'
StoreCsv(sess) ==
    [sess EXCEPT !["df_json"] = TableJson("CSV"),
                 !["format_type"] = S("CSV")]

\* Mutant: the table is stored under the key the views read.
StoreJson_underData(sess, format_type) ==
    [sess EXCEPT !["data"] = TableJson(format_type),
                 !["format_type"] = S(format_type),
                 !["raw_json"] = S("raw json")]

\* session['df_json'] = ...; session['format_type'] = format_type;
\* session['raw_json'] = ...
StoreJson(sess, format_type) ==
    [sess EXCEPT !["df_json"] = TableJson(format_type),
                 !["format_type"] = S(format_type),
                 !["raw_json"] = S("raw json")]

\* return redirect(url_for(to))
Redirect(route, to) == [route |-> route, kind |-> "redirect", to |-> to]

\* return render_template(to, ...)
Render(route, to) == [route |-> route, kind |-> "render", to |-> to]

\* return send_file(result, as_attachment=True, ...)
SendFile(route) == [route |-> route, kind |-> "file", to |-> "download"]

WebInit ==
    /\ builder = "web"
    /\ records = <<>>
    /\ items_per_page = 1
    /\ pc = "ready"
    /\ i = 0
    /\ current_chunk = 0
    /\ total_chunks = 0
    /\ pages = <<>>
    /\ composed = <<>>
    /\ progress = <<>>
    /\ ret = Running
    /\ json_data = NoJson
    /\ parsed = NoParse
    /\ df = NoDf
    /\ csv_out = NoCsv
    /\ today = Days[1]
    /\ earlier = NoCall
    /\ session = NoSession
    /\ response = NoResponse
    /\ recent_urls = E

\* POST /upload-csv: the file is read and normalized, or an error is flashed
upload_csv ==
    /\ \E ok \in BOOLEAN :
           IF ok
           THEN /\ session' = StoreCsv(session)
                /\ response' = Redirect("upload_csv", "data_view")
           ELSE /\ session' = session
                /\ response' = Redirect("upload_csv", "index")
    /\ UNCHANGED <<pagVars, jsonVars, csvVars, clockVars, recent_urls>>

\* POST /upload-json
upload_json ==
    /\ \E ok \in BOOLEAN, format_type \in JsonFormats :
           IF ok
           THEN /\ session' = StoreJson(session, format_type)
                /\ response' = Redirect("upload_json", "data_view")
           ELSE /\ session' = session
                /\ response' = Redirect("upload_json", "index")
    /\ UNCHANGED <<pagVars, jsonVars, csvVars, clockVars, recent_urls>>

\* POST /paste-json
paste_json ==
    /\ \E ok \in BOOLEAN, format_type \in JsonFormats :
           IF ok
           THEN /\ session' = StoreJson(session, format_type)
                /\ response' = Redirect("paste_json", "data_view")
           ELSE /\ session' = session
                /\ response' = Redirect("paste_json", "index")
    /\ UNCHANGED <<pagVars, jsonVars, csvVars, clockVars, recent_urls>>

\* POST /search-json-or-api, for a URL or for pasted JSON: neither branch
\* touches the recent URLs
search_json_or_api ==
    /\ \E ok \in BOOLEAN, format_type \in JsonFormats :
           IF ok
           THEN /\ session' = StoreJson(session, format_type)
                /\ response' = Redirect("search_json_or_api", "data_view")
           ELSE /\ session' = session
                /\ response' = Redirect("search_json_or_api", "index")
    /\ UNCHANGED <<pagVars, jsonVars, csvVars, clockVars, recent_urls>>

\* handle_bamboo_url(url), with handle_bamboo_forbidden() on a 403.  The
\* outcomes: the fetch or the normalizer fails ("error"), the server answers
\* 403 with or without a cached payload, the cache file cannot be written,
\* or everything succeeds
handle_bamboo_url(url, outcome) ==
    /\ session' = IF outcome \in {"ok", "cache_error", "forbidden_cached"}
                  THEN StoreJson(session, "Bamboo")
                  ELSE session
    /\ recent_urls' = IF outcome = "ok"
                      THEN RememberUrl(recent_urls, url)
                      ELSE recent_urls
    /\ response' = IF outcome \in {"ok", "forbidden_cached"}
                   THEN Redirect("load_url", "data_view")
                   ELSE Redirect("load_url", "index")

\* load_from_url(url): the session is filled, the recent URLs are not
load_from_url(url, ok, format_type) ==
    /\ session' = IF ok THEN StoreJson(session, format_type) ELSE session
    /\ recent_urls' = recent_urls
    /\ response' = IF ok THEN Redirect("load_url", "data_view")
                   ELSE Redirect("load_url", "index")

\* POST /load-url
load_url ==
    /\ \E url \in Urls :
           IF ~Truthy(url)
           THEN /\ response' = Redirect("load_url", "index")
                /\ UNCHANGED <<session, recent_urls>>
           ELSE IF IsBambooUrl(url)
                THEN \E outcome \in {"error", "forbidden_cached", "forbidden",
                                      "cache_error", "ok"} :
                         handle_bamboo_url(url, outcome)
                ELSE \E ok \in BOOLEAN, format_type \in JsonFormats :
                         load_from_url(url, ok, format_type)
    /\ UNCHANGED <<pagVars, jsonVars, csvVars, clockVars>>

\* POST /fetch-api
fetch_api ==
    /\ \E url \in Urls, ok \in BOOLEAN :
           IF ~Truthy(url) \/ ~ok
           THEN /\ response' = Redirect("fetch_api", "index")
                /\ UNCHANGED <<session, recent_urls>>
           ELSE /\ \E format_type \in JsonFormats :
                       session' = StoreJson(session, format_type)
                /\ recent_urls' = RememberUrl(recent_urls, url)
                /\ response' = Redirect("fetch_api", "data_view")
    /\ UNCHANGED <<pagVars, jsonVars, csvVars, clockVars>>

\* GET /clear-data
clear_data ==
    /\ session' = [session EXCEPT !["df_json"] = Absent,
                                  !["format_type"] = Absent,
                                  !["raw_json"] = Absent,
                                  !["output_file"] = Absent]
    /\ response' = Redirect("clear_data", "index")
    /\ UNCHANGED <<pagVars, jsonVars, csvVars, clockVars, recent_urls>>

\* GET /data-view
data_view ==
    /\ response' = IF session["data"] = Absent
                   THEN Redirect("data_view", "index")
                   ELSE Render("data_view", "data_view.html")
    /\ UNCHANGED <<pagVars, jsonVars, csvVars, clockVars, session,
                   recent_urls>>

\* POST /generate-slips, with or without selected rows; success is the
\* first component of what run_full_process_inventory_slips returns
generate_slips ==
    /\ \E selected \in BOOLEAN, success \in BOOLEAN :
           response' =
               IF session["data"] = Absent
               THEN Redirect("generate_slips", "index")
               ELSE IF ~selected
                    THEN Redirect("generate_slips", "data_view")
                    ELSE IF success THEN SendFile("generate_slips")
                         ELSE Redirect("generate_slips", "data_view")
    /\ UNCHANGED <<pagVars, jsonVars, csvVars, clockVars, session,
                   recent_urls>>

WebNext ==
    \/ upload_csv
    \/ upload_json
    \/ paste_json
    \/ search_json_or_api
    \/ load_url
    \/ fetch_api
    \/ clear_data
    \/ data_view
    \/ generate_slips

WebSpec == WebInit /\ [][WebNext]_vars

(***************************************************************************)
(* Properties of the web session and of the recent URLs.                   *)
(***************************************************************************)

\* The handlers whose success leaves a table in the session
Importers == {"upload_csv", "upload_json", "paste_json",
              "search_json_or_api", "load_url", "fetch_api"}

\* C29: the session never holds the key "data"; an import that succeeded
\* (it redirects to the data view) has left its table under "df_json"; and
\* whatever the session holds, /data-view and /generate-slips answer with a
\* redirect to the index, never with the rendered table or a slip file.
C29_DataNeverStored ==
    /\ session["data"] = Absent
    /\ (response.route \in Importers /\ response.to = "data_view")
           => session["df_json"] # Absent
    /\ response.route \in {"data_view", "generate_slips"}
           => response = Redirect(response.route, "index")

\* A CSV upload succeeded, and the data view then sent the browser back to
\* the index.
C29_Witness ==
    /\ session["df_json"] = TableJson("CSV")
    /\ session["format_type"] = S("CSV")
    /\ response = Redirect("data_view", "index")

\* The entries of urls are pairwise different.
NoDuplicates(urls) ==
    \A j, k \in 1..Len(urls) : urls[j] = urls[k] => j = k

\* C30: the saved recent_urls list holds at most 10 entries and no entry
\* twice.
C30_RecentUrls ==
    /\ Len(RecentList(recent_urls)) <= MaxRecent
    /\ NoDuplicates(RecentList(recent_urls))

====
